---- MODULE Spec2Model ----
(***************************************************************************)
(* A model of the check-tag-names rule (src/rules/checkTagNames.js): the   *)
(* per-tag precedence of the JSX exemption, the typed-redundancy check and *)
(* the naming policy, the ambient-context walk, and the two kinds of fixer *)
(* (tag/type removal and whole-block text replacement).                    *)
(*                                                                         *)
(* Representation.                                                         *)
(*  - A tag name, a type, a name-path and a message are strings; the empty *)
(*    string is the falsy/absent value.                                    *)
(*  - Text (a description, the comment's source text, the file name) is a  *)
(*    sequence of lexemes: every non-word character is a lexeme of its own *)
(*    and every maximal run of word characters is one lexeme.  On such a   *)
(*    sequence the regular expression @name\b matches exactly at a "@"     *)
(*    lexeme followed by the lexeme name (names here are word-only).       *)
(*  - node is the ancestor chain of the annotated node: node[1] is the     *)
(*    node itself, node[k+1] is node[k].parent, the last element has no    *)
(*    parent, and the empty chain is an absent (null) node.                *)
(*  - A call that can throw returns [threw, value].                        *)
(***************************************************************************)
EXTENDS Integers, Sequences, FiniteSets, TLC

VARIABLES
    options,          \* context.options[0]: jsxTags, typed, definedTags
    settings,         \* settings: tagNamePreference, structuredTags
    filename,         \* context.getFilename(), as lexemes
    node,             \* the annotated node's ancestor chain
    jsdoc,            \* the parsed comment block: exists, description, tags
    tagIndex,         \* the tag loop's index (1-based)
    reports,          \* the diagnostics handed to the host, in order
    settingsReports,  \* the number of utils.reportSettings calls
    status,           \* "start", "running" or "threw"
    fixed             \* the fix the host applied before this pass, or NoFix

vars == <<options, settings, filename, node, jsdoc, tagIndex, reports,
          settingsReports, status, fixed>>

-----------------------------------------------------------------------------
(* Bounds of the checked inputs *)

\* the longest comment block of the classification inputs
MaxTags == 2
\* the most non-Program nodes on an ancestor chain
MaxDepth == 2
\* the longest comment block of the fixer inputs
MaxFixTags == 2

-----------------------------------------------------------------------------
(* The built-in tag-name sets *)

jsxTagNames == {"jsx", "jsxFrag", "jsxImportSource", "jsxRuntime"}

typedTagsAlwaysUnnecessary ==
    {"augments", "callback", "class", "enum", "implements", "private",
     "property", "protected", "public", "readonly", "this", "type", "typedef"}

typedTagsUnnecessaryOutsideDeclare ==
    {"abstract", "access", "class", "constant", "constructs", "default",
     "enum", "export", "exports", "function", "global", "inherits",
     "instance", "interface", "member", "memberof", "memberOf", "method",
     "mixes", "mixin", "module", "name", "namespace", "override", "property",
     "requires", "static", "this"}

-----------------------------------------------------------------------------
(* Text helpers *)

\* String.prototype.endsWith on lexeme sequences
EndsWith(s, suffix) ==
    /\ Len(s) >= Len(suffix)
    /\ SubSeq(s, Len(s) - Len(suffix) + 1, Len(s)) = suffix

DtsSuffix == <<".", "d", ".", "ts">>

\* context.getFilename().endsWith('.d.ts')
IsDtsFile == EndsWith(filename, DtsSuffix)

\* description.trim() is the empty string
IsBlank(text) == \A k \in DOMAIN text : text[k] \in {" ", "\n"}

-----------------------------------------------------------------------------
(* Results of calls that may throw *)

Ret(v) == [threw |-> FALSE, value |-> v]
Throw == [threw |-> TRUE, value |-> FALSE]

-----------------------------------------------------------------------------
(* The preamble of the callback: the naming policy's lists *)

tagNamePreference == settings.tagNamePreference

definedTags == options.definedTags

definedStructuredTags == settings.structuredTags

definedNonPreferredTags == DOMAIN tagNamePreference

\* the value the map callback returns for one preference value; "" stands
\* for undefined/false, which the filter drops
MappedPreferredTag(preferredTag) ==
    IF preferredTag.kind = "string" THEN preferredTag.replacement
    ELSE IF preferredTag.kind = "false" THEN ""
    ELSE IF preferredTag.kind = "object" THEN preferredTag.replacement
    ELSE ""    \* neither falsy, string nor object: .replacement is undefined

definedPreferredTags ==
    IF definedNonPreferredTags = {} THEN {}
    ELSE {MappedPreferredTag(tagNamePreference[k]) :
              k \in definedNonPreferredTags} \ {""}

\* the utils.reportSettings calls made while mapping the preference values
InvalidPreferenceCount ==
    Cardinality({k \in definedNonPreferredTags :
                     tagNamePreference[k].kind = "invalid"})

-----------------------------------------------------------------------------
(* Ambient-context detection *)

\* variant: the walk calls the Program non-ambient whatever the file is
RECURSIVE isInAmbientContext_NoDts(_)
isInAmbientContext_NoDts(subNode) ==
    IF subNode = <<>> THEN Throw
    ELSE IF Head(subNode).type = "Program" THEN Ret(FALSE)
    ELSE IF Head(subNode).declare THEN Ret(TRUE)
    ELSE isInAmbientContext_NoDts(Tail(subNode))

\* subNode is a suffix of the chain; the empty suffix is the null/undefined
\* parent, whose .type cannot be read
RECURSIVE isInAmbientContext(_)
isInAmbientContext(subNode) ==
    IF subNode = <<>> THEN Throw
    ELSE IF Head(subNode).type = "Program" THEN Ret(IsDtsFile)
    ELSE IF Head(subNode).declare THEN Ret(TRUE)
    ELSE isInAmbientContext(Tail(subNode))

\* node.parent.type === 'Program', which reads .parent of node and .type of
\* the parent
ParentIsProgram ==
    IF Len(node) < 2 THEN Throw
    ELSE Ret(node[2].type = "Program")

\* variant: the walk over the ancestors is left out
tagIsRedundantWhenTyped_NoAmbientCheck(jsdocTag) ==
    IF jsdocTag.tag \notin typedTagsUnnecessaryOutsideDeclare THEN Ret(FALSE)
    ELSE IF jsdocTag.name = "default" THEN Ret(FALSE)
    ELSE IF IsDtsFile /\ ParentIsProgram.threw THEN Throw
    ELSE IF IsDtsFile /\ ParentIsProgram.value THEN Ret(FALSE)
    ELSE Ret(TRUE)

tagIsRedundantWhenTyped(jsdocTag) ==
    IF jsdocTag.tag \notin typedTagsUnnecessaryOutsideDeclare THEN Ret(FALSE)
    ELSE IF jsdocTag.name = "default" THEN Ret(FALSE)
    ELSE IF IsDtsFile /\ ParentIsProgram.threw THEN Throw
    ELSE IF IsDtsFile /\ ParentIsProgram.value THEN Ret(FALSE)
    ELSE IF isInAmbientContext(node).threw THEN Throw
    ELSE IF isInAmbientContext(node).value THEN Ret(FALSE)
    ELSE Ret(TRUE)

-----------------------------------------------------------------------------
(* Diagnostics and fixers *)

NoFixer == [type |-> "none", additionalTagChanges |-> {}, from |-> "", to |-> ""]

\* the handler reportWithTypeRemovalFixer gives to utils.reportJSDoc
TypeRemovalFixer(additionalTagChanges) ==
    [type |-> "typeRemoval", additionalTagChanges |-> additionalTagChanges,
     from |-> "", to |-> ""]

\* the fixer of the preference report
ReplaceTextFixer(tagName, preferredTagName) ==
    [type |-> "replaceText", additionalTagChanges |-> {},
     from |-> tagName, to |-> preferredTagName]

Report(index, kind, message, fixer) ==
    [tagIndex |-> index, kind |-> kind, message |-> message, fixer |-> fixer]

RedundancyKinds == {"redundantTyped", "redundantOutsideAmbient", "templateWithoutName"}

\* what checkTagForTypedValidity does for one tag: the report it makes, or
\* none (it returns false), or the TypeError of the ambient test
checkTagForTypedValidity(jsdocTag, index) ==
    IF jsdocTag.tag \in typedTagsAlwaysUnnecessary
    THEN [outcome |-> "report",
          report |-> Report(index, "redundantTyped", "",
                            TypeRemovalFixer({"postTag", "tag"}))]
    ELSE IF tagIsRedundantWhenTyped(jsdocTag).threw
    THEN [outcome |-> "TypeError", report |-> Report(index, "", "", NoFixer)]
    ELSE IF tagIsRedundantWhenTyped(jsdocTag).value
    THEN [outcome |-> "report",
          report |-> Report(index, "redundantOutsideAmbient", "",
                            TypeRemovalFixer({}))]
    ELSE IF jsdocTag.tag = "template" /\ jsdocTag.name = ""
    THEN [outcome |-> "report",
          report |-> Report(index, "templateWithoutName", "",
                            TypeRemovalFixer({}))]
    ELSE [outcome |-> "none", report |-> Report(index, "", "", NoFixer)]

\* variant: the typed check runs whether or not the typed option is set
TypedCheck_IgnoringTypedOption(jsdocTag, index) ==
    checkTagForTypedValidity(jsdocTag, index)

\* typed && checkTagForTypedValidity(jsdocTag, tagIndex)
TypedCheck(jsdocTag, index) ==
    IF options.typed THEN checkTagForTypedValidity(jsdocTag, index)
    ELSE [outcome |-> "none", report |-> Report(index, "", "", NoFixer)]

\* variant: a preference for the name overrides the JSX exemption
JsxExempt_UnlessPreference(tagName) ==
    options.jsxTags /\ tagName \in jsxTagNames
        /\ tagName \notin definedNonPreferredTags

\* jsxTags && jsxTagNames.has(tagName)
JsxExempt(tagName) == options.jsxTags /\ tagName \in jsxTagNames

\* the list handed to utils.isValidTag
ValidTagList ==
    definedTags \cup definedPreferredTags \cup definedNonPreferredTags
        \cup definedStructuredTags

\* utils.isValidTag: the name is in the combined allow-list
isValidTag(tagName, validTags) == tagName \in validTags

\* utils.getPreferredTagName with allowObjectReturn: the mapped value, the
\* name itself when it is no key of the map; blocked when the value is false
\* or an object without a replacement (then it reports by itself and
\* returns false).  A value of `true` is returned as it is and prints as
\* "true" in the message and in the fixer's template string
getPreferredTagName(tagName) ==
    IF tagName \notin definedNonPreferredTags
    THEN [blocked |-> FALSE, message |-> "", replacement |-> tagName]
    ELSE LET v == tagNamePreference[tagName] IN
         IF v.kind = "false" \/ (v.kind = "object" /\ v.replacement = "")
         THEN [blocked |-> TRUE, message |-> v.message, replacement |-> ""]
         ELSE IF v.kind = "invalid"
         THEN [blocked |-> FALSE, message |-> "", replacement |-> "true"]
         ELSE [blocked |-> FALSE, message |-> v.message,
               replacement |-> v.replacement]

-----------------------------------------------------------------------------
(* The comment's text: printing, the fixers, parsing back *)

Lexeme(s) == IF s = "" THEN <<>> ELSE <<s>>

\* one tag's line
TagText(t) ==
    (IF t.tag # "" THEN <<"@", t.tag>> ELSE <<>>)
        \o Lexeme(t.postTag)
        \o (IF t.type # "" THEN <<"{", t.type, "}">> ELSE <<>>)
        \o Lexeme(t.postType)
        \o Lexeme(t.name)
        \o (IF t.name # "" /\ t.description # <<>> THEN <<" ">> ELSE <<>>)
        \o t.description

RECURSIVE TagsText(_)
TagsText(tags) ==
    IF tags = <<>> THEN <<>>
    ELSE TagText(Head(tags)) \o <<"\n">> \o TagsText(Tail(tags))

\* sourceCode.getText(jsdocNode) of the block, and utils.stringify of it
Stringify(block) ==
    IF ~block.exists THEN <<>>
    ELSE <<"/", "*", "*">> \o block.description \o <<"\n">>
             \o TagsText(block.tags) \o <<"*", "/">>

\* where new RegExp(`@${escapeStringRegexp(tagName)}\\b`, 'u') matches
Matches(text, tagName) ==
    {k \in 1..(Len(text) - 1) : text[k] = "@" /\ text[k + 1] = tagName}

Least(S) == CHOOSE k \in S : \A m \in S : k <= m

ReplaceAt(text, k, preferredTagName) ==
    SubSeq(text, 1, k - 1) \o <<"@", preferredTagName>>
        \o SubSeq(text, k + 2, Len(text))

\* text.replace(regexp, `@${preferredTagName}`): the first match only
ReplaceFirstMatch(text, tagName, preferredTagName) ==
    IF Matches(text, tagName) = {} THEN text
    ELSE ReplaceAt(text, Least(Matches(text, tagName)), preferredTagName)

\* the blocks that differ from block in one lexeme that follows an "@"
Edits(block, to) ==
    {block}
    \cup {[block EXCEPT !.tags[i].tag = to] : i \in DOMAIN block.tags}
    \cup {[block EXCEPT !.description[p] = to] : p \in DOMAIN block.description}
    \cup UNION {{[block EXCEPT !.tags[i].description[p] = to] :
                    p \in DOMAIN block.tags[i].description} :
                i \in DOMAIN block.tags}

\* the parser on the text a replaceText fixer produced from block: the block
\* of the same shape that prints as that text
parseCommentAfterReplace(block, text, to) ==
    CHOOSE c \in Edits(block, to) : Stringify(c) = text

\* utils.changeTag: the named string fields of the tag are overwritten
changeTag(t, changes) ==
    [f \in DOMAIN t |-> IF f \in changes THEN "" ELSE t[f]]

RemoveAt(s, i) == SubSeq(s, 1, i - 1) \o SubSeq(s, i + 1, Len(s))

\* utils.removeTag(tagIndex, {removeEmptyBlock: true})
removeTag(block, i) ==
    LET rest == RemoveAt(block.tags, i)
    IN  [exists |-> ~(rest = <<>> /\ IsBlank(block.description)),
         description |-> block.description,
         tags |-> rest]

\* the handler of reportWithTypeRemovalFixer, run on the block
TypeRemovalHandler(block, report) ==
    LET t == block.tags[report.tagIndex] IN
    IF ~IsBlank(t.description)
    THEN [block EXCEPT !.tags[report.tagIndex] =
              changeTag(t, {"postType", "type"}
                               \cup report.fixer.additionalTagChanges)]
    ELSE removeTag(block, report.tagIndex)

\* a line that no longer starts with a tag continues the text before it
RECURSIVE FoldTags(_, _, _)
FoldTags(description, done, rest) ==
    IF rest = <<>> THEN [description |-> description, tags |-> done]
    ELSE IF Head(rest).tag # ""
    THEN FoldTags(description, Append(done, Head(rest)), Tail(rest))
    ELSE IF done = <<>>
    THEN FoldTags(description \o <<"\n">> \o TagText(Head(rest)), done,
                  Tail(rest))
    ELSE FoldTags(description,
                  [done EXCEPT ![Len(done)].description =
                       @ \o <<"\n">> \o TagText(Head(rest))],
                  Tail(rest))

\* the parser on the text utils.stringify printed after the handler
parseCommentAfterHandler(block) ==
    [exists |-> block.exists,
     description |-> FoldTags(block.description, <<>>, block.tags).description,
     tags |-> FoldTags(block.description, <<>>, block.tags).tags]

\* the block as the fixer of the report leaves it in the model
FixerModel(block, report) ==
    IF report.fixer.type = "typeRemoval"
    THEN TypeRemovalHandler(block, report)
    ELSE block

\* the text the fixer of the report hands to fixer.replaceText
FixerText(block, report) ==
    IF report.fixer.type = "typeRemoval"
    THEN Stringify(TypeRemovalHandler(block, report))
    ELSE ReplaceFirstMatch(Stringify(block), report.fixer.from,
                           report.fixer.to)

\* the block the next pass sees
FixedBlock(block, report) ==
    IF report.fixer.type = "typeRemoval"
    THEN parseCommentAfterHandler(TypeRemovalHandler(block, report))
    ELSE parseCommentAfterReplace(block, FixerText(block, report),
                                  report.fixer.to)

-----------------------------------------------------------------------------
(* The inputs *)

MkTag(tag, type, name, description) ==
    [tag |-> tag,
     postTag |-> IF type # "" \/ name # "" \/ description # <<>> THEN " " ELSE "",
     type |-> type,
     postType |-> IF type # "" /\ (name # "" \/ description # <<>>) THEN " " ELSE "",
     name |-> name,
     description |-> description]

SeqsUpTo(S, n) == UNION {[1..k -> S] : k \in 0..n}

ProgramNode == [type |-> "Program", declare |-> FALSE]

PlainNode == [type |-> "ClassDeclaration", declare |-> FALSE]

DeclareNode == [type |-> "ClassDeclaration", declare |-> TRUE]

\* chains of at most MaxDepth inner nodes, ending at the Program or at a
\* node without a parent; the empty chain is the absent node
NodeChains ==
    LET inner == SeqsUpTo({PlainNode, DeclareNode}, MaxDepth)
    IN  inner \cup {c \o <<ProgramNode>> : c \in inner}

TsFile == <<"a", ".", "ts">>

Filenames == {TsFile, <<"a", ".", "d", ".", "ts">>, <<"d", ".", "ts">>}

Pref(kind, replacement, message) ==
    [kind |-> kind, replacement |-> replacement, message |-> message]

NoPreference == <<>>

ArgToParam ==
    [k \in {"arg", "foo"} |->
        IF k = "arg" THEN Pref("string", "param", "")
        ELSE Pref("string", "foo", "")]

ArgForbidden ==
    [k \in {"arg", "jsx", "template"} |->
        IF k = "arg" THEN Pref("false", "", "")
        ELSE IF k = "jsx" THEN Pref("string", "class", "")
        ELSE Pref("invalid", "", "")]

ObjectPreferences ==
    [k \in {"arg", "jsx", "abstract"} |->
        IF k = "arg" THEN Pref("object", "param", "use param")
        ELSE IF k = "jsx" THEN Pref("false", "", "")
        ELSE Pref("object", "", "no abstract")]

PreferenceChoices == {NoPreference, ArgToParam, ArgForbidden, ObjectPreferences}

StandardTags ==
    {"abstract", "class", "default", "jsx", "param", "template", "typedef"}

NoFix == [applied |-> FALSE]

InitWith(optionChoices, settingChoices, files, chains, blocks) ==
    /\ options \in optionChoices
    /\ settings \in settingChoices
    /\ filename \in files
    /\ node \in chains
    /\ jsdoc \in blocks
    /\ tagIndex = 1
    /\ reports = <<>>
    /\ settingsReports = 0
    /\ status = "start"
    /\ fixed = NoFix

Blocks(descriptions, tagChoices, maxTags) ==
    [exists : {TRUE}, description : descriptions,
     tags : SeqsUpTo(tagChoices, maxTags)]

\* every context, the tags the typed check is about
AmbientTagChoices ==
    {MkTag(t, "", n, <<>>) :
        t \in {"abstract", "default"}, n \in {"", "default"}}
    \cup {MkTag("class", "", "", <<>>), MkTag("template", "", "", <<>>)}

InitAmbient ==
    InitWith([jsxTags : {FALSE}, typed : BOOLEAN, definedTags : {StandardTags}],
             [tagNamePreference : {NoPreference, ObjectPreferences},
              structuredTags : {{}}],
             Filenames, NodeChains,
             Blocks({<<>>}, AmbientTagChoices, MaxTags))

\* every naming policy, one tag of each kind
PolicyTagChoices ==
    {MkTag(t, "", "", <<>>) :
        t \in {"jsx", "typedef", "class", "abstract", "template", "arg",
               "foo"}}

InitPolicy ==
    InitWith([jsxTags : BOOLEAN, typed : BOOLEAN,
              definedTags : {{}, StandardTags}],
             [tagNamePreference : PreferenceChoices,
              structuredTags : {{}, {"foo"}}],
             {TsFile},
             {<<>>, <<PlainNode, ProgramNode>>, <<DeclareNode, ProgramNode>>},
             Blocks({<<>>}, PolicyTagChoices, MaxTags))

\* the blocks the fixers are tried on: types, descriptions, and text that
\* holds the non-preferred name
FixTagChoices ==
    {MkTag(t, "T", "", d) :
        t \in {"arg", "abstract", "class", "template"},
        d \in {<<>>, <<"x">>, <<"@", "arg", ".">>}}

InitFix ==
    InitWith([jsxTags : {FALSE}, typed : BOOLEAN, definedTags : {StandardTags}],
             [tagNamePreference : {ArgToParam}, structuredTags : {{}}],
             {TsFile},
             {<<PlainNode, ProgramNode>>, <<DeclareNode, ProgramNode>>},
             Blocks({<<>>, <<"see", " ", "@", "arg", ".">>}, FixTagChoices,
                    MaxFixTags))

Init == InitAmbient \/ InitPolicy \/ InitFix

-----
(* The callback *)

\* lines 69-104: the options and the policy lists are read, and every
\* preference value that is neither falsy, a string nor an object is
\* reported through utils.reportSettings
Begin ==
    /\ status = "start"
    /\ status' = "running"
    /\ tagIndex' = 1
    /\ reports' = <<>>
    /\ settingsReports' = InvalidPreferenceCount
    /\ UNCHANGED <<options, settings, filename, node, jsdoc, fixed>>

InLoop == status = "running" /\ jsdoc.exists /\ tagIndex <= Len(jsdoc.tags)

Done == status = "running" /\ ~InLoop

jsdocTag == jsdoc.tags[tagIndex]

Continue(newReports) ==
    /\ reports' = newReports
    /\ tagIndex' = tagIndex + 1
    /\ UNCHANGED <<options, settings, filename, node, jsdoc, settingsReports,
                   status, fixed>>

SkipJsxTag ==
    /\ InLoop
    /\ JsxExempt(jsdocTag.tag)
    /\ Continue(reports)

ReportTypedRedundancy ==
    /\ InLoop
    /\ ~JsxExempt(jsdocTag.tag)
    /\ TypedCheck(jsdocTag, tagIndex).outcome = "report"
    /\ Continue(Append(reports, TypedCheck(jsdocTag, tagIndex).report))

\* the TypeError of the ambient test unwinds the callback
TypedCheckThrows ==
    /\ InLoop
    /\ ~JsxExempt(jsdocTag.tag)
    /\ TypedCheck(jsdocTag, tagIndex).outcome = "TypeError"
    /\ status' = "threw"
    /\ UNCHANGED <<options, settings, filename, node, jsdoc, tagIndex, reports,
                   settingsReports, fixed>>

ReachesNamingPolicy ==
    /\ InLoop
    /\ ~JsxExempt(jsdocTag.tag)
    /\ TypedCheck(jsdocTag, tagIndex).outcome = "none"

ReportInvalidTagName ==
    /\ ReachesNamingPolicy
    /\ ~isValidTag(jsdocTag.tag, ValidTagList)
    /\ Continue(Append(reports, Report(tagIndex, "invalidName", "", NoFixer)))

\* utils.getPreferredTagName reports the blocked tag and returns false
ReportBlockedTag ==
    /\ ReachesNamingPolicy
    /\ isValidTag(jsdocTag.tag, ValidTagList)
    /\ getPreferredTagName(jsdocTag.tag).blocked
    /\ Continue(Append(reports,
           Report(tagIndex, "blocked",
                  getPreferredTagName(jsdocTag.tag).message, NoFixer)))

AcceptTag ==
    /\ ReachesNamingPolicy
    /\ isValidTag(jsdocTag.tag, ValidTagList)
    /\ ~getPreferredTagName(jsdocTag.tag).blocked
    /\ getPreferredTagName(jsdocTag.tag).replacement = jsdocTag.tag
    /\ Continue(reports)

ReportPreferredName ==
    /\ ReachesNamingPolicy
    /\ isValidTag(jsdocTag.tag, ValidTagList)
    /\ ~getPreferredTagName(jsdocTag.tag).blocked
    /\ getPreferredTagName(jsdocTag.tag).replacement # jsdocTag.tag
    /\ Continue(Append(reports,
           Report(tagIndex, "preference",
                  getPreferredTagName(jsdocTag.tag).message,
                  ReplaceTextFixer(jsdocTag.tag,
                      getPreferredTagName(jsdocTag.tag).replacement))))

\* the host applies the fixer of one report of a finished pass and the rule
\* runs again on the fixed comment
ApplyFix ==
    /\ Done
    /\ fixed = NoFix
    /\ \E k \in DOMAIN reports :
          /\ reports[k].fixer.type # "none"
          /\ jsdoc' = FixedBlock(jsdoc, reports[k])
          /\ fixed' = [applied |-> TRUE, report |-> reports[k],
                       before |-> jsdoc,
                       model |-> FixerModel(jsdoc, reports[k]),
                       text |-> FixerText(jsdoc, reports[k])]
    /\ status' = "start"
    /\ tagIndex' = 1
    /\ reports' = <<>>
    /\ UNCHANGED <<options, settings, filename, node, settingsReports>>

Next ==
    \/ Begin
    \/ SkipJsxTag
    \/ ReportTypedRedundancy
    \/ TypedCheckThrows
    \/ ReportInvalidTagName
    \/ ReportBlockedTag
    \/ AcceptTag
    \/ ReportPreferredName
    \/ ApplyFix

Spec == Init /\ [][Next]_vars

-----------------------------------------------------------------------------
(* Properties *)

Tags == jsdoc.tags

\* the indices of the diagnostics made for tag i
ReportsFor(i) == {k \in DOMAIN reports : reports[k].tagIndex = i}

\* the loop iteration of tag i has completed in this pass
Examined(i) == status = "running" /\ i \in DOMAIN Tags /\ i < tagIndex

\* the pass is over: the loop ran out of tags, or a TypeError unwound it
Ended == Done \/ status = "threw"

TypedRedundancyReported(i) ==
    \E k \in ReportsFor(i) : reports[k].kind \in RedundancyKinds

\* the combined allow-list: defined tags, preference keys, preference
\* replacements, structured tags
CombinedAllowList ==
    options.definedTags
        \cup DOMAIN settings.tagNamePreference
        \cup ({settings.tagNamePreference[k].replacement :
                  k \in DOMAIN settings.tagNamePreference} \ {""})
        \cup settings.structuredTags

\* the naming policy has nothing to say against the name
PolicyAcceptsAsIs(name) ==
    /\ name \in CombinedAllowList
    /\ \/ name \notin DOMAIN settings.tagNamePreference
       \/ settings.tagNamePreference[name] = Pref("string", name, "")

\* the node or one of its ancestors is declare-marked, or the file is a
\* type-declaration-only file
InAmbientContext ==
    IsDtsFile \/ \E k \in DOMAIN node : node[k].declare

\* the chain is a real syntax tree's: it ends at the Program
ChainEndsAtProgram == node # <<>> /\ node[Len(node)].type = "Program"

OnlyInvalidNameReported(i) ==
    /\ Cardinality(ReportsFor(i)) = 1
    /\ \A k \in ReportsFor(i) :
          reports[k] = Report(i, "invalidName", "", NoFixer)

\* C1: with typed mode on, a tag named `default` never gets a
\* typed-redundancy diagnostic, whatever the context, its name-path and its
\* description.
C1_DefaultNeverTypedRedundant ==
    options.typed =>
        \A i \in DOMAIN Tags :
            Tags[i].tag = "default" => ~TypedRedundancyReported(i)

\* C2 as stated: with typed mode on and the declaration in an ambient
\* context, a tag whose name is in the redundant-outside-ambient set gets no
\* diagnostic.
C2_NoDiagnosticInAmbientContext ==
    (options.typed /\ InAmbientContext) =>
        \A i \in DOMAIN Tags :
            Tags[i].tag \in typedTagsUnnecessaryOutsideDeclare
                => ReportsFor(i) = {}

\* C2 amended: with typed mode on and the declaration in an ambient context,
\* a tag whose name is in the redundant-outside-ambient set and not in the
\* always-redundant set gets no typed-redundancy diagnostic.
C2_NoRedundancyInAmbientContext ==
    (options.typed /\ InAmbientContext) =>
        \A i \in DOMAIN Tags :
            Tags[i].tag \in typedTagsUnnecessaryOutsideDeclare
                               \ typedTagsAlwaysUnnecessary
                => ~TypedRedundancyReported(i)

\* C2 witness: an `abstract` tag on a declare-marked class of a .ts file was examined
\* under typed mode and nothing was reported for it
C2_Witness ==
    /\ Done /\ options.typed /\ ~IsDtsFile
    /\ node = <<DeclareNode, ProgramNode>>
    /\ \E i \in DOMAIN Tags :
          /\ Examined(i)
          /\ Tags[i].tag = "abstract" /\ Tags[i].name = ""
          /\ PolicyAcceptsAsIs("abstract")
          /\ ReportsFor(i) = {}

\* C3: after the fix of a diagnostic was applied and the analysis ran again
\* on the fixed block under the same (valid) configuration and context, the
\* fixed tag, when it is still a tag of the block, has no diagnostic.
C3_FixedTagNotReportedAgain ==
    (fixed.applied /\ Done /\ settingsReports = 0) =>
        LET i == fixed.report.tagIndex
            gone == \/ fixed.report.fixer.type = "typeRemoval"
                       /\ \/ Len(fixed.model.tags) < Len(fixed.before.tags)
                          \/ fixed.model.tags[i].tag = ""
        IN  ~gone => ReportsFor(i) = {}

\* C4: the fix of a preference diagnostic yields the text of the block with
\* the reported tag renamed and nothing else changed.
C4_ReplaceTouchesOnlyTheReportedTag ==
    (fixed.applied /\ fixed.report.fixer.type = "replaceText") =>
        fixed.text =
            Stringify([fixed.before EXCEPT
                          !.tags[fixed.report.tagIndex].tag =
                              fixed.report.fixer.to])

C6_AlwaysRedundantReportedOnce ==
    (options.typed /\ Ended /\ jsdoc.exists) =>
        \A i \in DOMAIN Tags :
            Tags[i].tag \in typedTagsAlwaysUnnecessary
                => /\ Cardinality(ReportsFor(i)) = 1
                   /\ \A k \in ReportsFor(i) :
                         reports[k].kind = "redundantTyped"

\* C7: with jsxTags on, a tag whose name is in the JSX tag set has no
\* diagnostic, whatever the other options and settings are.
C7_JsxTagsNeverReported ==
    options.jsxTags =>
        \A i \in DOMAIN Tags :
            Tags[i].tag \in jsxTagNames => ReportsFor(i) = {}

\* C7 witness: a `jsx` tag that the preference map forbids or renames was examined under
\* typed mode with jsxTags on, and nothing was reported for it
C7_Witness ==
    /\ Done /\ options.jsxTags /\ options.typed
    /\ "jsx" \in DOMAIN settings.tagNamePreference
    /\ \E i \in DOMAIN Tags :
          Examined(i) /\ Tags[i].tag = "jsx" /\ ReportsFor(i) = {}

\* C8: the fix of a typed-redundancy diagnostic removes the whole tag (and
\* the block when nothing is left) when the trimmed description is empty,
\* and otherwise blanks the type and the tag name and keeps the description.
C8_RedundancyFixStripsTypeAndName ==
    (fixed.applied /\ fixed.report.kind \in RedundancyKinds) =>
        LET i == fixed.report.tagIndex
            old == fixed.before
            new == fixed.model
        IN  IF IsBlank(old.tags[i].description)
            THEN /\ new.tags = RemoveAt(old.tags, i)
                 /\ new.description = old.description
                 /\ new.exists = ~(new.tags = <<>> /\ IsBlank(old.description))
            ELSE /\ Len(new.tags) = Len(old.tags)
                 /\ new.tags[i].type = ""
                 /\ new.tags[i].tag = ""
                 /\ new.tags[i].description = old.tags[i].description

\* C9 as stated: in a .d.ts file, a tag of the redundant-outside-ambient set
\* only, on a node whose parent is not the Program and that has no
\* declare-marked node on its chain, is reported as redundant outside of
\* ambient contexts.
C9_NestedNodeInDtsReported ==
    (/\ options.typed /\ Done /\ IsDtsFile /\ ChainEndsAtProgram
     /\ Len(node) >= 2 /\ node[2].type # "Program"
     /\ \A k \in DOMAIN node : ~node[k].declare) =>
        \A i \in DOMAIN Tags :
            (/\ Tags[i].tag \in typedTagsUnnecessaryOutsideDeclare
                                   \ typedTagsAlwaysUnnecessary
             /\ Tags[i].tag # "default" /\ Tags[i].name # "default")
                => \E k \in ReportsFor(i) :
                       reports[k].kind = "redundantOutsideAmbient"

\* C9 amended: in a .d.ts file no tag is reported as redundant outside of
\* ambient contexts, at whatever depth the annotated node is nested.
C9_NothingRedundantOutsideAmbientInDts ==
    (options.typed /\ IsDtsFile) =>
        \A k \in DOMAIN reports : reports[k].kind # "redundantOutsideAmbient"

\* C9 witness: an `abstract` tag on a node nested two levels below the Program of a
\* .d.ts file, with no declare marker, was examined under typed mode and
\* nothing was reported for it
C9_Witness ==
    /\ Done /\ options.typed /\ IsDtsFile
    /\ node = <<PlainNode, PlainNode, ProgramNode>>
    /\ \E i \in DOMAIN Tags :
          /\ Examined(i)
          /\ Tags[i].tag = "abstract" /\ Tags[i].name = ""
          /\ ReportsFor(i) = {}

\* C10: the ambient-context test ends with a boolean on every chain: no
\* pass is unwound by an error.
C10_AmbientTestNeverThrows == status # "threw"

====
